---- MODULE Spec2Model ----
(***************************************************************************)
(* Model of the embedding pipeline of AI-LLAMA3-8B:                        *)
(*   backend/vector/background.py  (BackgroundEmbeddingProcessor)          *)
(*   backend/vector/search_sync.py, search_fixed.py (VectorSearchService)  *)
(*   backend/vector/embeddings.py  (EmbeddingGenerator, EmbeddingResult)   *)
(*   backend/vector/migration.py   (document_chunks table)                 *)
(*                                                                         *)
(* The processor runs on one asyncio event loop: a coroutine runs          *)
(* atomically between two suspension points.  The worker's suspension      *)
(* points are wait_for(queue.get()) and the two sleeps; callers            *)
(* (enqueue, stop, retry_failed_tasks, ...) run only while the worker is   *)
(* suspended.                                                              *)
(***************************************************************************)
EXTENDS Integers, Sequences, FiniteSets, TLC

\* ------------------------------------------------------------------ bounds
MaxTasks == 2        \* ProcessingTask objects created in one behaviour
MaxBulk == 2         \* length of a queue_bulk_documents argument
MaxTime == 2         \* last second of the clock in which a bulk or chunker call is made
MaxOldWorkers == 1   \* live worker coroutines besides the one of self.worker_task

\* --------------------------------------------------------------- constants
max_retries == 3

Docs == {"d1"}
Filenames == {"a.pdf"}
Missing == "KeyError"          \* a key that the dict of a bulk item lacks
None == "None"
NoTask == 0
NoTime == -1

\* the store of one document as the attempt sees it:
\*   "absent": no row or no content, "blank": chunk_text returns [],
\*   "text": chunk_text returns at least one chunk
ContentKinds == {"absent", "blank", "text"}

\* the documents tables the model starts from; embedding_status has the
\* column default 'pending'
DocumentStores == [Docs -> [content : ContentKinds, embedding_status : {"pending"}]]

\* EmbeddingGenerator.embedding_dimension and VectorSearchService.embedding_dim
embedding_dimension == 384
embedding_dim == 384

\* the dimension of document_chunks.embedding: CREATE TABLE IF NOT EXISTS of
\* the migration declares vector(768) and keeps a table that exists already;
\* the generator is written for a 384D database
ColumnDims == {embedding_dimension, 768}

VARIABLES
  now,               \* int(datetime.now().timestamp())
  tasks,             \* every ProcessingTask object ever created, by creation order
  active_tasks,      \* self.active_tasks: task_id -> ProcessingTask object
  processing_queue,  \* self.processing_queue (asyncio.Queue): objects, head first
  is_running,        \* self.is_running
  worker_task,       \* self.worker_task: the coroutine of _background_worker
  old_workers,       \* live worker coroutines that self.worker_task has let go of
  documents,         \* documents table: content kind and embedding_status
  ret,               \* what the last bulk, retry or clear call returned
  status_log,        \* history: statuses of each object since it last was pending
  first_attempts,    \* history: objects in the order of their first attempt
  document_chunks,   \* document_chunks table: the set of its rows
  embedding_column,  \* document_chunks.embedding is vector(embedding_column)
  is_initialized,    \* embedding_generator.is_initialized
  model_loads        \* history: how often SentenceTransformer(...) has loaded

generator_vars == <<is_initialized, model_loads>>

vector_vars == <<document_chunks, embedding_column, is_initialized, model_loads>>

vars == <<now, tasks, active_tasks, processing_queue, is_running, worker_task,
          old_workers, documents, ret, status_log, first_attempts, document_chunks,
          embedding_column, is_initialized, model_loads>>

\* ------------------------------------------------------------ pure helpers
Range(s) == {s[i] : i \in DOMAIN s}

\* the list without its element at position i
RemoveAt(s, i) == SubSeq(s, 1, i - 1) \o SubSeq(s, i + 1, Len(s))

\* f"embed_{document_id}_{int(datetime.now().timestamp())}"
TaskId(document_id, t) == <<"embed", document_id, t>>

ProcessingTask(task_id, document_id, filename, priority) ==
  [task_id |-> task_id, document_id |-> document_id, filename |-> filename,
   status |-> "pending", completed_at |-> NoTime, error_message |-> None,
   retry_count |-> 0, priority |-> priority]

\* a queue that lets a priority task overtake the waiting ones
QueuePut_priority_first(q, o, priority) == IF priority THEN <<o>> \o q ELSE Append(q, o)

\* a queue that puts a task in front of the waiting ones
QueuePut_at_front(q, o, priority) == <<o>> \o q

\* asyncio.Queue.put on the unbounded FIFO queue; the priority flag of the
\* task is not consulted
QueuePut(q, o, priority) == Append(q, o)

\* a retry test that is off by one
RetryAllowed_strict(retry_count) == retry_count < max_retries

\* if task.retry_count <= self.max_retries
RetryAllowed(retry_count) == retry_count <= max_retries

\* A coroutine of _background_worker: where it is suspended (pc) and the task
\* object it holds.  pc is "none" before the first start, "created" until the
\* event loop first runs it, "waiting" in wait_for(queue.get()), "delivered"
\* when wait_for holds the task of queue.get() and the worker has yet to
\* resume, "processing" inside _process_embedding_task, "sleeping" in
\* asyncio.sleep(retry_delay), "done" once it has returned.
Coroutine(pc, task) == [pc |-> pc, task |-> task]

\* The worker coroutines of the event loop: 0 is the one that self.worker_task
\* refers to, the others are those of old_workers.
Workers == 0 .. Len(old_workers)

WorkerAt(i) == IF i = 0 THEN worker_task ELSE old_workers[i]

\* the coroutine i is suspended again, as coroutine; an old worker that has
\* returned is gone
WorkerTaskAfter(i, coroutine) == IF i = 0 THEN coroutine ELSE worker_task

OldWorkersAfter(i, coroutine) ==
  IF i = 0 THEN old_workers
  ELSE IF coroutine.pc = "done" THEN RemoveAt(old_workers, i)
  ELSE [old_workers EXCEPT ![i] = coroutine]

\* A worker is about to resume with the task that wait_for has for it.  The
\* event loop runs what is ready in the order in which it became ready, so
\* this worker runs before any step of a worker that becomes ready later;
\* callers that are ready already may run before it.
Resuming == \E i \in Workers : WorkerAt(i).pc = "delivered"

\* a worker is inside a synchronous stretch of _process_embedding_task
MidStep == \E i \in Workers : WorkerAt(i).pc = "processing"

\* the worker coroutine exists and has not finished
Live == worker_task.pc \in {"created", "waiting", "delivered", "processing", "sleeping"}

\* the record of a finished call: its name, what it returned, its argument
Return(op, value, arg) == [op |-> op, value |-> value, arg |-> arg]

Init ==
  /\ now = 0
  /\ tasks = <<>>
  /\ active_tasks = <<>>
  /\ processing_queue = <<>>
  /\ is_running = FALSE
  /\ worker_task = Coroutine("none", NoTask)
  /\ old_workers = <<>>
  /\ documents \in DocumentStores
  /\ ret = Return("__init__", <<>>, <<>>)
  /\ status_log = <<>>
  /\ first_attempts = <<>>
  /\ document_chunks = {}
  /\ embedding_column \in ColumnDims
  /\ is_initialized = FALSE
  /\ model_loads = 0

\* the values of the dict self.active_tasks, in insertion order
RegistryTasks == [i \in DOMAIN active_tasks |-> active_tasks[i].task]

\* dict.get(task_id): the object stored under task_id, NoTask when absent
DictGet(d, task_id) ==
  IF \E i \in DOMAIN d : d[i].task_id = task_id
  THEN d[CHOOSE i \in DOMAIN d : d[i].task_id = task_id].task
  ELSE NoTask

\* d[task_id] = o: a new key goes last, an existing key keeps its place
DictSet(d, task_id, o) ==
  IF \E i \in DOMAIN d : d[i].task_id = task_id
  THEN [i \in DOMAIN d |-> IF d[i].task_id = task_id
                            THEN [task_id |-> task_id, task |-> o] ELSE d[i]]
  ELSE Append(d, [task_id |-> task_id, task |-> o])

\* ------------------------------------------------------------- the clock
\* Whole seconds that have passed between two readings of the clock.  A
\* task_id holds the second of its enqueue, so what matters is whether two
\* enqueues fall into the same second (0) or not (1).
Elapsed == {0, 1}

\* ---------------------------------------------------------------- enqueue
\* The part of the processor that an enqueue reads and writes, as a record.
QueueState ==
  [tasks |-> tasks, active |-> active_tasks, queue |-> processing_queue,
   log |-> status_log, ids |-> <<>>, raised |-> FALSE]

\* queue_document_for_processing on the state st: a new PENDING task, stored
\* under its task_id and put on the queue; ids collects the returned task_ids
EnqueueOn(st, document_id, filename, priority, t) ==
  LET o == Len(st.tasks) + 1
      task_id == TaskId(document_id, t)
  IN [tasks |-> Append(st.tasks, ProcessingTask(task_id, document_id, filename, priority)),
      active |-> DictSet(st.active, task_id, o),
      queue |-> QueuePut(st.queue, o, priority),
      log |-> Append(st.log, <<"pending">>),
      ids |-> Append(st.ids, task_id),
      raised |-> FALSE]

queue_document_for_processing(document_id, filename, priority, dt) ==
  /\ ~MidStep
  /\ Len(tasks) < MaxTasks
  /\ now' = now + dt
  /\ LET st == EnqueueOn(QueueState, document_id, filename, priority, now')
     IN /\ tasks' = st.tasks
        /\ active_tasks' = st.active
        /\ processing_queue' = st.queue
        /\ status_log' = st.log
  /\ UNCHANGED <<ret, is_running, worker_task, old_workers, documents,
                 first_attempts>>
  /\ UNCHANGED vector_vars

\* the dicts a caller may hand to queue_bulk_documents: a dict that lacks a
\* key makes doc["document_id"] / doc["filename"] raise KeyError
BulkDocs == [document_id : Docs \cup {Missing}, filename : Filenames \cup {Missing}]

WellFormed(doc) == doc.document_id # Missing /\ doc.filename # Missing

RECURSIVE SeqsUpTo(_, _)
SeqsUpTo(S, n) ==
  IF n = 0 THEN {<<>>}
  ELSE LET shorter == SeqsUpTo(S, n - 1)
       IN shorter \cup {Append(s, x) : s \in {q \in shorter : Len(q) = n - 1}, x \in S}

\* the for loop of queue_bulk_documents: it stops at the first item that raises
RECURSIVE BulkLoop(_, _, _)
BulkLoop(st, docs, t) ==
  IF docs = <<>> THEN st
  ELSE IF ~WellFormed(Head(docs)) THEN [st EXCEPT !.raised = TRUE]
  ELSE BulkLoop(EnqueueOn(st, Head(docs).document_id, Head(docs).filename, FALSE, t),
                Tail(docs), t)

\* except Exception: return []
BulkReturn(st) == IF st.raised THEN <<>> ELSE st.ids

queue_bulk_documents(docs, dt) ==
  /\ ~MidStep
  /\ Len(tasks) + Len(docs) <= MaxTasks
  /\ now + dt <= MaxTime
  /\ now' = now + dt
  /\ LET st == BulkLoop(QueueState, docs, now')
     IN /\ tasks' = st.tasks
        /\ active_tasks' = st.active
        /\ processing_queue' = st.queue
        /\ status_log' = st.log
        /\ ret' = Return("queue_bulk_documents", BulkReturn(st), <<docs, Len(tasks)>>)
  /\ UNCHANGED <<is_running, worker_task, old_workers, documents,
                 first_attempts>>
  /\ UNCHANGED vector_vars

\* ------------------------------------------------------- start and stop
\* self.worker_task = asyncio.create_task(...): a coroutine that the attribute
\* referred to and that has not returned goes on running
start_background_worker ==
  /\ ~MidStep
  /\ IF is_running
     THEN UNCHANGED <<is_running, worker_task, old_workers>>
     ELSE /\ Live => Len(old_workers) < MaxOldWorkers
          /\ is_running' = TRUE
          /\ worker_task' = Coroutine("created", NoTask)
          /\ old_workers' = IF Live THEN Append(old_workers, worker_task)
                            ELSE old_workers
  /\ UNCHANGED <<now, tasks, active_tasks, processing_queue, documents, ret,
                 status_log, first_attempts>>
  /\ UNCHANGED vector_vars

\* Task.cancel() and the await of the cancelled task: CancelledError is thrown
\* into the coroutine at the await it is suspended in.  It is no Exception,
\* so no handler of _process_embedding_task runs; the worker loop breaks and
\* the coroutine returns, still referring to the task it held.
Cancel(coroutine) == IF Live THEN [coroutine EXCEPT !.pc = "done"] ELSE coroutine

\* Task.cancel() of a worker that waits in wait_for(queue.get()) while a task
\* is on the queue: the inner get() takes the task before the CancelledError
\* reaches wait_for.  The wait_for of Python 3.8 to 3.11 then returns the
\* task and the cancellation is lost; the one of 3.12 raises CancelledError
\* and the task stays on the queue.
CancelOutcomes(coroutine, q) ==
  IF coroutine.pc = "waiting" /\ q # <<>>
  THEN {Cancel(coroutine), Coroutine("delivered", Head(q))}
  ELSE {Cancel(coroutine)}

\* stop_background_worker, to its await of the worker (when the processor is
\* not running it returns at once and changes nothing); what follows the
\* await changes nothing
stop_background_worker ==
  /\ ~MidStep
  /\ is_running
  /\ is_running' = FALSE
  /\ worker_task' \in CancelOutcomes(worker_task, processing_queue)
  /\ processing_queue' = IF worker_task'.pc = "delivered" THEN Tail(processing_queue)
                         ELSE processing_queue
  /\ UNCHANGED <<now, tasks, active_tasks, old_workers, documents, ret,
                 status_log, first_attempts>>
  /\ UNCHANGED vector_vars

\* ------------------------------------------------------------- the worker
\* while self.is_running: where a worker that has come round the loop is next
LoopTest == Coroutine(IF is_running THEN "waiting" ELSE "done", NoTask)

\* the worker coroutine runs for the first time
worker_begins ==
  /\ ~Resuming
  /\ worker_task.pc = "created"
  /\ worker_task' = LoopTest
  /\ UNCHANGED <<now, tasks, active_tasks, processing_queue, is_running, old_workers,
                 documents, ret, status_log, first_attempts>>
  /\ UNCHANGED vector_vars

\* wait_for has a task for the coroutine
HasTask(coroutine) ==
  \/ coroutine.pc = "delivered"
  \/ coroutine.pc = "waiting" /\ processing_queue # <<>> /\ ~Resuming

\* wait_for(queue.get()) returns a task; _process_embedding_task marks it
\* PROCESSING.
worker_gets_task ==
  \E i \in Workers :
    /\ ~MidStep
    /\ HasTask(WorkerAt(i))
    /\ LET delivered == WorkerAt(i).pc = "delivered"
           o == IF delivered THEN WorkerAt(i).task ELSE Head(processing_queue)
       IN /\ processing_queue' = IF delivered THEN processing_queue
                                 ELSE Tail(processing_queue)
          /\ tasks' = [tasks EXCEPT ![o].status = "processing"]
          /\ worker_task' = WorkerTaskAfter(i, Coroutine("processing", o))
          /\ old_workers' = OldWorkersAfter(i, Coroutine("processing", o))
          /\ status_log' = [status_log EXCEPT ![o] = Append(@, "processing")]
          /\ first_attempts' = IF o \in Range(first_attempts) THEN first_attempts
                               ELSE Append(first_attempts, o)
    /\ UNCHANGED <<now, active_tasks, is_running, documents, ret>>
    /\ UNCHANGED vector_vars

\* except asyncio.TimeoutError: continue.  wait_for has found no task within
\* its five seconds and the loop test fails; while the processor runs a
\* timeout changes nothing.
worker_times_out ==
  \E i \in Workers :
    /\ ~MidStep
    /\ ~Resuming
    /\ WorkerAt(i).pc = "waiting"
    /\ processing_queue = <<>>
    /\ ~is_running
    /\ worker_task' = WorkerTaskAfter(i, LoopTest)
    /\ old_workers' = OldWorkersAfter(i, LoopTest)
    /\ UNCHANGED <<now, tasks, active_tasks, processing_queue, is_running, documents,
                   ret, status_log, first_attempts>>
    /\ UNCHANGED vector_vars

\* the methods of class EmbeddingGenerator
GeneratorMethods ==
  {"initialize_model", "generate_embedding", "batch_generate_embeddings",
   "generate_query_embedding", "get_model_info"}

\* a try block without the test of the chunk list
TryBlock_skips_chunk_test(content) ==
  IF content = "absent" THEN "Document content not found"
  ELSE IF "generate_batch_embeddings" \notin GeneratorMethods THEN "AttributeError"
  ELSE "completed"

\* the try block of _process_embedding_task: the error it raises, or
\* "completed".  The document is read, chunked, and then
\* embedding_generator.generate_batch_embeddings is looked up.
TryBlock(content) ==
  IF content = "absent" THEN "Document content not found"
  ELSE IF content = "blank" THEN "No chunks generated from document"
  ELSE IF "generate_batch_embeddings" \notin GeneratorMethods THEN "AttributeError"
  ELSE "completed"

\* UPDATE documents SET embedding_status = :status WHERE id = :doc_id
UpdateDocument(document_id, status) ==
  IF documents[document_id].content # "absent"
  THEN [documents EXCEPT ![document_id].embedding_status = status]
  ELSE documents

\* an except block that loses the message of the error
RecordError_drops_message(task, message, retry_count, status) ==
  [task EXCEPT !.retry_count = retry_count, !.status = status]

\* task.error_message = str(e); task.retry_count += 1; task.status = ...
RecordError(task, message, retry_count, status) ==
  [task EXCEPT !.error_message = message, !.retry_count = retry_count,
               !.status = status]

\* the rest of _process_embedding_task, from the try block to the return or
\* to the sleep before the retry
worker_attempt ==
  \E i \in Workers :
    /\ WorkerAt(i).pc = "processing"
    /\ LET o == WorkerAt(i).task
           outcome == TryBlock(documents[tasks[o].document_id].content)
           retry_count == tasks[o].retry_count + 1
       IN IF outcome = "completed"
          THEN /\ tasks' = [tasks EXCEPT ![o].status = "completed",
                                         ![o].completed_at = now]
               /\ documents' = UpdateDocument(tasks[o].document_id, "completed")
               /\ worker_task' = WorkerTaskAfter(i, LoopTest)
               /\ old_workers' = OldWorkersAfter(i, LoopTest)
               /\ status_log' = [status_log EXCEPT ![o] = Append(@, "completed")]
          ELSE IF RetryAllowed(retry_count)
          THEN /\ tasks' = [tasks EXCEPT
                            ![o] = RecordError(@, outcome, retry_count, "retrying")]
               /\ worker_task' = WorkerTaskAfter(i, Coroutine("sleeping", o))
               /\ old_workers' = OldWorkersAfter(i, Coroutine("sleeping", o))
               /\ status_log' = [status_log EXCEPT ![o] = Append(@, "retrying")]
               /\ UNCHANGED documents
          ELSE /\ tasks' = [tasks EXCEPT
                            ![o] = RecordError(@, outcome, retry_count, "failed")]
               /\ documents' = UpdateDocument(tasks[o].document_id, "failed")
               /\ worker_task' = WorkerTaskAfter(i, LoopTest)
               /\ old_workers' = OldWorkersAfter(i, LoopTest)
               /\ status_log' = [status_log EXCEPT ![o] = Append(@, "failed")]
    /\ UNCHANGED <<now, active_tasks, processing_queue, is_running, ret, first_attempts>>
    /\ UNCHANGED vector_vars

\* asyncio.sleep(self.retry_delay) is over: the same task object is put back
worker_requeues ==
  \E i \in Workers :
    /\ ~MidStep
    /\ ~Resuming
    /\ WorkerAt(i).pc = "sleeping"
    /\ processing_queue' = QueuePut(processing_queue, WorkerAt(i).task,
                                    tasks[WorkerAt(i).task].priority)
    /\ worker_task' = WorkerTaskAfter(i, LoopTest)
    /\ old_workers' = OldWorkersAfter(i, LoopTest)
    /\ UNCHANGED <<now, tasks, active_tasks, is_running, documents, ret, status_log,
                   first_attempts>>
    /\ UNCHANGED vector_vars

\* ------------------------------------------------- operator maintenance
\* the objects of a sequence of objects that satisfy a status test, in order
RECURSIVE PutAll(_, _)
PutAll(q, objs) ==
  IF objs = <<>> THEN q
  ELSE PutAll(QueuePut(q, Head(objs), tasks[Head(objs)].priority), Tail(objs))

\* a retry that also takes the tasks that are done
IsFailed_or_completed(o) == tasks[o].status \in {"failed", "completed"}

\* task.status == ProcessingStatus.FAILED
IsFailed(o) == tasks[o].status = "failed"

\* failed_tasks = [task for task in self.active_tasks.values() if FAILED]
FailedTasks == SelectSeq(RegistryTasks, IsFailed)

\* a reset that forgets to clear the retry counter
ResetTask_keeps_count(task) == [task EXCEPT !.status = "pending", !.error_message = None]

\* what retry_failed_tasks assigns to one failed task
ResetTask(task) ==
  [task EXCEPT !.status = "pending", !.retry_count = 0, !.error_message = None]

retry_failed_tasks ==
  /\ ~MidStep
  /\ LET failed == FailedTasks
     IN /\ tasks' = [o \in DOMAIN tasks |->
                       IF o \in Range(failed) THEN ResetTask(tasks[o]) ELSE tasks[o]]
        /\ processing_queue' = PutAll(processing_queue, failed)
        /\ status_log' = [o \in DOMAIN status_log |->
                            IF o \in Range(failed) THEN <<"pending">> ELSE status_log[o]]
        /\ ret' = Return("retry_failed_tasks", <<Len(failed)>>, <<>>)
  /\ UNCHANGED <<now, active_tasks, is_running, worker_task, old_workers,
                 documents, first_attempts>>
  /\ UNCHANGED vector_vars

\* timedelta(hours=1) in the unit of the clock
SecondsPerHour == 3600

\* a test that also removes a task completed exactly at the cutoff
ToRemove_inclusive(task, t, older_than_hours) ==
  /\ task.status = "completed"
  /\ task.completed_at # NoTime
  /\ task.completed_at <= t - older_than_hours * SecondsPerHour

\* a test that looks at the age alone
ToRemove_any_status(task, t, older_than_hours) ==
  task.completed_at < t - older_than_hours * SecondsPerHour

\* the test of clear_completed_tasks on one task, cutoff = now - older_than_hours
ToRemove(task, t, older_than_hours) ==
  /\ task.status = "completed"
  /\ task.completed_at # NoTime
  /\ task.completed_at < t - older_than_hours * SecondsPerHour

clear_completed_tasks(older_than_hours) ==
  /\ ~MidStep
  /\ LET Kept(e) == ~ToRemove(tasks[e.task], now, older_than_hours)
     IN /\ active_tasks' = SelectSeq(active_tasks, Kept)
        /\ ret' = Return("clear_completed_tasks",
                         <<Len(active_tasks) - Len(SelectSeq(active_tasks, Kept))>>,
                         <<older_than_hours>>)
  /\ UNCHANGED <<now, tasks, processing_queue, is_running, worker_task, old_workers,
                 documents, status_log, first_attempts>>
  /\ UNCHANGED vector_vars

\* ------------------------------------------------------ the specification
Hours == 0 .. 1

Worker ==
  \/ worker_begins
  \/ worker_gets_task
  \/ worker_times_out
  \/ worker_attempt
  \/ worker_requeues

Enqueue ==
  \E d \in Docs, f \in Filenames, p \in BOOLEAN, dt \in Elapsed :
    queue_document_for_processing(d, f, p, dt)

\* The task queue: enqueue, start, stop, the worker and retry_failed_tasks.
\* queue_bulk_documents is a run of enqueues within one clock value and
\* clear_completed_tasks removes COMPLETED tasks only; they are exercised by
\* SpecBulk and SpecGC.
Next ==
  \/ Enqueue
  \/ start_background_worker
  \/ stop_background_worker
  \/ retry_failed_tasks
  \/ Worker

Spec == Init /\ [][Next]_vars

\* ---------------------------------------------------- the bulk enqueue
Bulk ==
  \E docs \in SeqsUpTo(BulkDocs, MaxBulk), dt \in Elapsed :
    queue_bulk_documents(docs, dt)

NextBulk ==
  \/ Bulk
  \/ Enqueue

\* callers that enqueue documents one by one and in bulk; neither call
\* suspends, so the worker cannot run inside one
SpecBulk == Init /\ [][NextBulk]_vars

\* ------------------------------------------- the registry and its purge
\* The registry that clear_completed_tasks is called on: tasks in every value
\* of ProcessingStatus, the COMPLETED ones with a completed_at on either side
\* of the cutoffs of Hours.
GCNow == 2 * SecondsPerHour

CompletedTimes ==
  {GCNow - SecondsPerHour - 1, GCNow - SecondsPerHour, GCNow - 1, GCNow}

GCKinds ==
  [status : {"pending", "processing", "retrying", "failed"}, completed_at : {NoTime}]
    \cup [status : {"completed"}, completed_at : CompletedTimes]

\* the i-th task of the registry, enqueued in second i, in the state kind
GCTask(kind, i) ==
  [ProcessingTask(TaskId("d1", i), "d1", "a.pdf", FALSE) EXCEPT
     !.status = kind.status,
     !.completed_at = kind.completed_at,
     !.error_message = IF kind.status \in {"retrying", "failed"}
                       THEN "AttributeError" ELSE None,
     !.retry_count = IF kind.status = "failed" THEN max_retries + 1
                     ELSE IF kind.status = "retrying" THEN 1 ELSE 0]

InQueue(o) == tasks[o].status \in {"pending", "retrying"}

\* a processor that was stopped, with the registry of its earlier work
InitGC ==
  /\ now = GCNow
  /\ \E kinds \in SeqsUpTo(GCKinds, MaxTasks) :
       tasks = [i \in DOMAIN kinds |-> GCTask(kinds[i], i)]
  /\ active_tasks = [i \in DOMAIN tasks |-> [task_id |-> tasks[i].task_id, task |-> i]]
  /\ processing_queue = SelectSeq([i \in DOMAIN tasks |-> i], InQueue)
  /\ is_running = FALSE
  /\ worker_task = Coroutine("done", NoTask)
  /\ old_workers = <<>>
  /\ documents \in DocumentStores
  /\ ret = Return("__init__", <<>>, <<>>)
  /\ status_log = [i \in DOMAIN tasks |-> <<tasks[i].status>>]
  /\ first_attempts = <<>>
  /\ document_chunks = {}
  /\ embedding_column \in ColumnDims
  /\ is_initialized = FALSE
  /\ model_loads = 0

Clear == \E older_than_hours \in Hours : clear_completed_tasks(older_than_hours)

NextGC ==
  \/ Clear
  \/ Enqueue

SpecGC == InitGC /\ [][NextGC]_vars

NextRegistry ==
  \/ Next
  \/ Clear

\* every operation of the processor but the bulk enqueue, on a processor
\* that holds the registry of earlier work: tasks in every status, next to
\* the ones that are enqueued now
SpecRegistry == InitGC /\ [][NextRegistry]_vars

\* ============================================== the vector store and search
\* Python values that reach len() and truth tests: a list of floats (its
\* length, and the text it was encoded from), None, an EmbeddingResult
PyList(len, text) == [type |-> "list", len |-> len, text |-> text]

PyNone == [type |-> "NoneType"]

\* @dataclass EmbeddingResult: success, embedding, error
EmbeddingResult(success, embedding, error) ==
  [type |-> "EmbeddingResult", success |-> success, embedding |-> embedding,
   error |-> error]

\* bool(x): None and the empty list are false; a dataclass instance that
\* defines neither __bool__ nor __len__ is true
Truthy(x) ==
  IF x.type = "NoneType" THEN FALSE
  ELSE IF x.type = "list" THEN x.len > 0
  ELSE TRUE

\* len(x) is defined for lists only
HasLen(x) == x.type = "list"

\* what a call hands to its caller: the exception it raised (None when it
\* returned) and the value it returned
Raised(exception) == [raised |-> exception, value |-> <<>>]

Returned(value) == [raised |-> None, value |-> value]

\* texts are sequences of tokens; " " is white space
Contents == {<<"cat">>, <<"dog">>}

Queries == {<<>>, <<"cat">>, <<" ", "dog">>}

\* str.strip()
RECURSIVE Strip(_)
Strip(text) ==
  IF text = <<>> THEN text
  ELSE IF Head(text) = " " THEN Strip(Tail(text))
  ELSE IF text[Len(text)] = " " THEN Strip(SubSeq(text, 1, Len(text) - 1))
  ELSE text

max_text_length == 2000

\* self.model.encode(text).tolist(): a vector of the model's dimension that
\* is determined by the text
Encode(text, dimension) == PyList(dimension, text)

\* an initialization that marks the generator initialized when the load failed
InitializeModel_poisons(initialized, available) ==
  [ok |-> initialized \/ available, is_initialized |-> TRUE,
   loaded |-> ~initialized /\ available]

\* EmbeddingGenerator.initialize_model on a generator whose is_initialized is
\* initialized, when SentenceTransformer(...) can (available) or cannot be
\* loaded: what it returns, is_initialized afterwards, whether it loaded
InitializeModel(initialized, available) ==
  [ok |-> initialized \/ available, is_initialized |-> initialized \/ available,
   loaded |-> ~initialized /\ available]

\* EmbeddingGenerator.generate_embedding; model tells whether the model is,
\* or can be, loaded
generate_embedding(text, model) ==
  IF ~model THEN EmbeddingResult(FALSE, PyNone, "Model initialization failed")
  ELSE IF text = <<>> \/ Strip(text) = <<>> THEN EmbeddingResult(FALSE, PyNone, "Empty text")
  ELSE LET stripped == Strip(text)
           cleaned_text == IF Len(stripped) > max_text_length
                           THEN SubSeq(stripped, 1, max_text_length) ELSE stripped
           prefixed_text == <<"passage:">> \o cleaned_text
       IN EmbeddingResult(TRUE, Encode(prefixed_text, embedding_dimension), None)

\* EmbeddingGenerator.generate_query_embedding
generate_query_embedding(query, model) ==
  generate_embedding(<<"query:">> \o Strip(query), model)

\* ---------------------------------------------------------------- chunks
\* the chunks that are persisted are the first chunks of their documents
ChunkIndexes == {0}

\* f"{document_id}_{index}_{md5(...content[:100]).hexdigest()[:8]}": the
\* document, the index and a digest that tells the contents apart
ChunkId(document_id, chunk_index, content) == <<document_id, chunk_index, content>>

\* a chunk of the chunker together with the embedding computed for it
ChunkWithEmbedding(document_id, chunk_index, content, dimension) ==
  [chunk_id |-> ChunkId(document_id, chunk_index, content),
   document_id |-> document_id, content |-> content, chunk_index |-> chunk_index,
   embedding |-> Encode(<<"passage:">> \o content, dimension)]

ChunkData ==
  {ChunkWithEmbedding(d, i, c, n) :
     d \in Docs, i \in ChunkIndexes, c \in Contents, n \in ColumnDims}

MaxBatch == 2        \* chunks handed to one _save_chunks_to_database call

\* the INSERT statements of one transaction, in order: the error of the
\* first one that the table rejects, or the rows to add
RECURSIVE InsertAll(_, _)
InsertAll(rows, chunk_data) ==
  IF chunk_data = <<>> THEN Returned(rows)
  ELSE LET item == Head(chunk_data)
       IN IF \E r \in rows : r.chunk_id = item.chunk_id
          THEN Raised("IntegrityError")      \* chunk_id VARCHAR(255) PRIMARY KEY
          ELSE IF item.embedding.len # embedding_column
          THEN Raised("DataError")           \* embedding vector(n)
          ELSE InsertAll(rows \cup {item}, Tail(chunk_data))

\* _save_chunks_to_database: the session commits after the last INSERT; an
\* error is re-raised and the session is closed without a commit
save_chunks_to_database(chunk_data) ==
  /\ LET inserted == InsertAll(document_chunks, chunk_data)
     IN /\ document_chunks' = IF inserted.raised = None THEN inserted.value
                              ELSE document_chunks
        /\ ret' = Return("_save_chunks_to_database",
                         IF inserted.raised = None THEN Returned(<<>>) ELSE inserted,
                         chunk_data)
  /\ UNCHANGED <<now, tasks, active_tasks, processing_queue, is_running, worker_task, old_workers,
                 documents, status_log, first_attempts, embedding_column>>
  /\ UNCHANGED generator_vars

\* ---------------------------------------------------------------- search
\* VectorSearchService.__init__; scores are in hundredths
similarity_threshold == 50
max_results_default == 10

\* the subject of a text: its last token
Topic(vector) == IF vector.text = <<>> THEN "" ELSE vector.text[Len(vector.text)]

\* 1 - (dc.embedding <=> query): the encoder puts texts on one subject
\* together (1.00) and keeps the others apart (0.00)
Similarity(a, b) == IF Topic(a) = Topic(b) THEN 100 ELSE 0

\* an optional argument is <<>> (None) or <<value>>
OrDefault(optional, default) == IF optional = <<>> THEN default ELSE optional[1]

\* ORDER BY dc.embedding <=> query ASC; rows at one distance come in the
\* order the database yields them
RECURSIVE OrderByDistance(_, _)
OrderByDistance(rows, query_embedding) ==
  IF rows = {} THEN <<>>
  ELSE LET first == CHOOSE r \in rows :
                      \A x \in rows : Similarity(r.embedding, query_embedding)
                                        >= Similarity(x.embedding, query_embedding)
       IN <<first>> \o OrderByDistance(rows \ {first}, query_embedding)

\* a LIMIT that lets one row more through
Limit_one_more(results, n) ==
  SubSeq(results, 1, IF Len(results) < n + 1 THEN Len(results) ELSE n + 1)

\* LIMIT n
Limit(results, n) == SubSeq(results, 1, IF Len(results) < n THEN Len(results) ELSE n)

SearchResult(row, query_embedding) ==
  [chunk_id |-> row.chunk_id, document_id |-> row.document_id,
   content |-> row.content, chunk_index |-> row.chunk_index,
   similarity_score |-> Similarity(row.embedding, query_embedding)]

\* the rows that the WHERE clause of the search lets through
Matching(query_embedding, threshold, document_ids) ==
  {r \in document_chunks :
     /\ document_ids # <<>> => r.document_id \in Range(document_ids)
     /\ Similarity(r.embedding, query_embedding) >= threshold}

\* the try block of search_similar_chunks
SearchTry(query_embedding, limit, threshold, document_ids) ==
  IF ~HasLen(query_embedding) THEN Raised("TypeError")
  ELSE IF query_embedding.len # embedding_dim THEN Raised("ValueError")
  ELSE IF \E r \in document_chunks : r.embedding.len # query_embedding.len
  THEN Raised("DataError")          \* <=> on vectors of different dimensions
  ELSE LET rows == Matching(query_embedding,
                            OrDefault(threshold, similarity_threshold), document_ids)
           ordered == OrderByDistance(rows, query_embedding)
           limited == Limit(ordered, OrDefault(limit, max_results_default))
       IN Returned([i \in DOMAIN limited |-> SearchResult(limited[i], query_embedding)])

\* VectorSearchService.search_similar_chunks: except Exception: return []
SearchSimilarChunks(query_embedding, limit, threshold, document_ids) ==
  LET tried == SearchTry(query_embedding, limit, threshold, document_ids)
  IN IF tried.raised # None THEN Returned(<<>>) ELSE tried

\* VectorSearchService.search_with_query_text: the value that
\* generate_query_embedding returned is passed on as query_embedding
SearchWithQueryText(query_text, model, limit, threshold, document_ids) ==
  LET query_embedding == generate_query_embedding(query_text, model)
  IN IF ~Truthy(query_embedding) THEN Returned(<<>>)
     ELSE SearchSimilarChunks(query_embedding, limit, threshold, document_ids)

SearchArgs(query, model, limit, threshold, document_ids) ==
  [query |-> query, model |-> model, limit |-> limit,
   similarity_threshold |-> threshold, document_ids |-> document_ids]

search_similar_chunks(query_embedding, limit, threshold, document_ids) ==
  /\ ret' = Return("search_similar_chunks",
                   SearchSimilarChunks(query_embedding, limit, threshold, document_ids),
                   SearchArgs(query_embedding, TRUE, limit, threshold, document_ids))
  /\ UNCHANGED <<now, tasks, active_tasks, processing_queue, is_running, worker_task, old_workers,
                 documents, status_log, first_attempts>>
  /\ UNCHANGED vector_vars

search_with_query_text(query_text, model, limit, threshold, document_ids) ==
  /\ LET init == InitializeModel(is_initialized, model)
     IN /\ ret' = Return("search_with_query_text",
                         SearchWithQueryText(query_text, init.ok, limit, threshold,
                                             document_ids),
                         SearchArgs(query_text, model, limit, threshold, document_ids))
        /\ is_initialized' = init.is_initialized
        /\ model_loads' = model_loads + IF init.loaded THEN 1 ELSE 0
  /\ UNCHANGED <<now, tasks, active_tasks, processing_queue, is_running, worker_task, old_workers,
                 documents, status_log, first_attempts, document_chunks,
                 embedding_column>>

\* the arguments that callers pass
VectorLengths == {128, embedding_dim}

QueryVectors ==
  {Encode(<<"passage:", "query:">> \o c, n) : c \in Contents, n \in VectorLengths}

Limits == {<<>>, <<1>>}

Thresholds == {<<>>, <<0>>, <<100>>}

DocumentIds == {<<>>, <<"d1">>, <<"d9">>}

Save == \E chunk_data \in SeqsUpTo(ChunkData, MaxBatch) : save_chunks_to_database(chunk_data)

SearchVector ==
  \E q \in QueryVectors, l \in Limits, t \in Thresholds, ids \in DocumentIds :
    search_similar_chunks(q, l, t, ids)

SearchText ==
  \E q \in Queries, model \in BOOLEAN, l \in Limits, t \in Thresholds,
     ids \in DocumentIds :
    search_with_query_text(q, model, l, t, ids)

NextVector ==
  \/ Save
  \/ SearchVector
  \/ SearchText

\* the chunk table, written by the persist step and read by the two searches
SpecVector == Init /\ [][NextVector]_vars

\* ================================================= the embedding generator
\* the texts that callers hand to the generator
Texts == Queries \cup Contents \cup {<<" ">>}

MaxTexts == 2        \* texts handed to one batch_generate_embeddings call
MaxBatchSize == 2    \* largest batch_size of a batch_generate_embeddings call

BatchSizes == 1 .. MaxBatchSize

\* a slice that loses its last element
Slice_drops_last(s, start, stop) ==
  SubSeq(s, start + 1, (IF stop < Len(s) THEN stop ELSE Len(s)) - 1)

\* s[start:stop] for 0 <= start <= stop
Slice(s, start, stop) == SubSeq(s, start + 1, IF stop < Len(s) THEN stop ELSE Len(s))

\* the loop of batch_generate_embeddings from position i on: every text of
\* the slice texts[i:i+batch_size] is embedded and the results are appended
RECURSIVE BatchLoop(_, _, _, _, _)
BatchLoop(texts, i, batch_size, model, results) ==
  IF i >= Len(texts) THEN results
  ELSE LET batch == Slice(texts, i, i + batch_size)
           batch_results == [k \in DOMAIN batch |-> generate_embedding(batch[k], model)]
       IN BatchLoop(texts, i + batch_size, batch_size, model, results \o batch_results)

\* EmbeddingGenerator.batch_generate_embeddings
BatchGenerateEmbeddings(texts, batch_size, model) ==
  IF texts = <<>> THEN <<>> ELSE BatchLoop(texts, 0, batch_size, model, <<>>)

\* the first generate_embedding of a call initializes the model when it is
\* not initialized; everything outside the generator is left alone
Initialize(init) ==
  /\ is_initialized' = init.is_initialized
  /\ model_loads' = model_loads + IF init.loaded THEN 1 ELSE 0
  /\ UNCHANGED <<now, tasks, active_tasks, processing_queue, is_running, worker_task, old_workers,
                 documents, status_log, first_attempts, document_chunks,
                 embedding_column>>

GenerateEmbedding(text, available) ==
  /\ ret' = Return("generate_embedding",
                   generate_embedding(text, InitializeModel(is_initialized, available).ok),
                   [text |-> text, available |-> available])
  /\ Initialize(InitializeModel(is_initialized, available))

GenerateQueryEmbedding(query, available) ==
  /\ ret' = Return("generate_query_embedding",
                   generate_query_embedding(query,
                                            InitializeModel(is_initialized, available).ok),
                   [text |-> query, available |-> available])
  /\ Initialize(InitializeModel(is_initialized, available))

\* an empty list returns at once, before any text is embedded
BatchGenerate(texts, batch_size, available) ==
  /\ ret' = Return("batch_generate_embeddings",
                   BatchGenerateEmbeddings(texts, batch_size,
                     InitializeModel(is_initialized, available).ok),
                   [texts |-> texts, batch_size |-> batch_size, available |-> available])
  /\ Initialize(InitializeModel(is_initialized, available /\ texts # <<>>))

EmbedText == \E text \in Texts, available \in BOOLEAN : GenerateEmbedding(text, available)

EmbedQuery ==
  \E query \in Queries, available \in BOOLEAN : GenerateQueryEmbedding(query, available)

EmbedBatch ==
  \E texts \in SeqsUpTo(Texts, MaxTexts), batch_size \in BatchSizes,
     available \in BOOLEAN :
    BatchGenerate(texts, batch_size, available)

NextGenerator ==
  \/ EmbedText
  \/ EmbedQuery
  \/ EmbedBatch

\* callers of the global embedding_generator, one call at a time
SpecGenerator == Init /\ [][NextGenerator]_vars

\* ============================================================ the chunker
\* A text is the sequence of the pieces that re.split(r'[.!?]+\s+') cuts the
\* cleaned text into; a piece is its words and its length in characters
\* after strip().  The empty and the white-space-only text have no piece.
Piece(words, chars) == [words |-> words, chars |-> chars]

Pieces ==
  {Piece(<<"a">>, 11), Piece(<<"b", "c">>, 11), Piece(<<"d", "e", "f">>, 999),
   Piece(<<"x", "y">>, 1000)}

MaxSentences == 3    \* pieces of one text

\* SimpleTextChunker(chunk_size, overlap), in words
ChunkerParams ==
  {[chunk_size |-> 2, overlap |-> 0], [chunk_size |-> 2, overlap |-> 1],
   [chunk_size |-> 2, overlap |-> 3]}

\* a filter that keeps the pieces of exactly 1000 characters
KeepSentence_inclusive(sentence) == sentence.chars > 10 /\ sentence.chars <= 1000

\* if len(sentence) > 10 and len(sentence) < 1000
KeepSentence(sentence) == sentence.chars > 10 /\ sentence.chars < 1000

\* _split_into_sentences
SplitIntoSentences(text) == SelectSeq(text, KeepSentence)

\* an overlap taken from the front of the chunk
GetOverlapText_leading(words, overlap_words) ==
  IF overlap_words <= 0 THEN <<>>
  ELSE IF Len(words) <= overlap_words THEN words
  ELSE SubSeq(words, 1, overlap_words)

\* _get_overlap_text: words[-overlap_words:], the whole text when it has no
\* more words than that
GetOverlapText(words, overlap_words) ==
  IF overlap_words <= 0 THEN <<>>
  ELSE IF Len(words) <= overlap_words THEN words
  ELSE SubSeq(words, Len(words) - overlap_words + 1, Len(words))

\* an index that leaves a gap
NextChunkIndex_skips(chunk_index) == chunk_index + 2

\* chunk_index += 1
NextChunkIndex(chunk_index) == chunk_index + 1

\* an id that depends on when the chunk is made
ChunkIdOf_timestamped(document_id, index, content) ==
  <<document_id, index, content, now>>

\* the chunk_id that _create_chunk computes
ChunkIdOf(document_id, index, content) == ChunkId(document_id, index, content)

\* _create_chunk at time t
CreateChunk(document_id, content, index, word_count, filename, t) ==
  [chunk_id |-> ChunkIdOf(document_id, index, content), document_id |-> document_id,
   content |-> content, chunk_index |-> index, word_count |-> word_count,
   metadata |-> [filename |-> filename, created_at |-> t]]

\* the body of the for loop of chunk_text for one sentence
Pack(st, sentence, document_id, filename, params, t) ==
  LET sentence_words == Len(sentence.words)
  IN IF st.current_word_count + sentence_words > params.chunk_size
          /\ st.current_chunk # <<>>
     THEN LET overlap_text == GetOverlapText(st.current_chunk, params.overlap)
              current_chunk == IF overlap_text # <<>>
                               THEN overlap_text \o sentence.words
                               ELSE sentence.words
          IN [chunks |-> Append(st.chunks,
                                CreateChunk(document_id, st.current_chunk,
                                            st.chunk_index, st.current_word_count,
                                            filename, t)),
              current_chunk |-> current_chunk,
              current_word_count |-> Len(current_chunk),
              chunk_index |-> NextChunkIndex(st.chunk_index)]
     ELSE [st EXCEPT !.current_chunk = @ \o sentence.words,
                     !.current_word_count = @ + sentence_words]

RECURSIVE PackAll(_, _, _, _, _, _)
PackAll(st, sentences, document_id, filename, params, t) ==
  IF sentences = <<>> THEN st
  ELSE PackAll(Pack(st, Head(sentences), document_id, filename, params, t),
               Tail(sentences), document_id, filename, params, t)

\* SimpleTextChunker.chunk_text
ChunkText(text, document_id, filename, params, t) ==
  IF text = <<>> THEN <<>>
  ELSE LET sentences == SplitIntoSentences(text)
       IN IF sentences = <<>> THEN <<>>
          ELSE LET st == PackAll([chunks |-> <<>>, current_chunk |-> <<>>,
                                  current_word_count |-> 0, chunk_index |-> 0],
                                 sentences, document_id, filename, params, t)
               IN IF st.current_chunk # <<>>
                  THEN Append(st.chunks,
                              CreateChunk(document_id, st.current_chunk, st.chunk_index,
                                          st.current_word_count, filename, t))
                  ELSE st.chunks

chunk_text(text, document_id, filename, params, dt) ==
  /\ now + dt <= MaxTime
  /\ now' = now + dt
  /\ ret' = Return("chunk_text", ChunkText(text, document_id, filename, params, now'),
                   [text |-> text, document_id |-> document_id, filename |-> filename,
                    params |-> params])
  /\ UNCHANGED <<tasks, active_tasks, processing_queue, is_running, worker_task, old_workers,
                 documents, status_log, first_attempts>>
  /\ UNCHANGED vector_vars

NextChunker ==
  \E text \in SeqsUpTo(Pieces, MaxSentences), d \in Docs, f \in Filenames,
     params \in ChunkerParams, dt \in Elapsed :
    chunk_text(text, d, f, params, dt)

\* a processor that has one document with text, and its chunk table
InitChunker ==
  /\ Init
  /\ embedding_column = embedding_dimension
  /\ \A d \in Docs : documents[d].content = "text"

\* callers of the chunker, one call after another while the clock runs
SpecChunker == InitChunker /\ [][NextChunker]_vars

\* ================================================ the document-level search
\* The chunk-level results that search_documents_by_content aggregates are
\* given: a list of SearchResult objects, here their document_id,
\* document_name, content and similarity_score (in hundredths; the values
\* are even, so that the mean of two of them is a whole number).
FoundDocs == {"dA", "dB"}

ScoreValues == {50, 80, 90}

MaxResults == 5      \* chunk-level results handed to one aggregation

\* what the aggregation reads of a SearchResult, but for its content
FoundChunk(document_id, score) ==
  [document_id |-> document_id, document_name |-> <<document_id, ".pdf">>,
   similarity_score |-> score]

FoundChunks == {FoundChunk(d, s) : d \in FoundDocs, s \in ScoreValues}

\* a list of found chunks, each with a content of its own
WithContent(found) ==
  [k \in DOMAIN found |->
     [document_id |-> found[k].document_id, document_name |-> found[k].document_name,
      content |-> <<"chunk", k>>, similarity_score |-> found[k].similarity_score]]

\* max() of a non-empty list of scores
MaxOf(scores) == CHOOSE m \in Range(scores) : \A x \in Range(scores) : x <= m

\* sorted(scores, reverse=True)
RECURSIVE SortedReverse(_)
SortedReverse(scores) ==
  IF scores = <<>> THEN <<>>
  ELSE LET i == CHOOSE k \in DOMAIN scores : scores[k] = MaxOf(scores)
       IN <<scores[i]>> \o SortedReverse(RemoveAt(scores, i))

RECURSIVE Sum(_)
Sum(scores) == IF scores = <<>> THEN 0 ELSE Head(scores) + Sum(Tail(scores))

\* a document score that is its best chunk alone
TopScores_best_only(scores) == Slice(SortedReverse(scores), 0, 1)

\* top_scores = sorted(scores, reverse=True)[:2]
TopScores(scores) == Slice(SortedReverse(scores), 0, 2)

\* the first for loop of search_documents_by_content: document_scores and
\* document_info are dicts keyed by doc_id; order keeps the keys in the
\* order of their insertion
RECURSIVE AggregateByDocument(_, _)
AggregateByDocument(chunk_results, acc) ==
  IF chunk_results = <<>> THEN acc
  ELSE LET chunk == Head(chunk_results)
           doc_id == chunk.document_id
           seen == doc_id \in Range(acc.order)
           before == IF seen THEN acc.scores[doc_id] ELSE <<>>
           scores == Append(before, chunk.similarity_score)
           \* chunk.similarity_score > max(scores[:-1]) if len(scores) > 1 else True
           better == IF Len(scores) > 1 THEN chunk.similarity_score > MaxOf(before)
                     ELSE TRUE
           info == IF seen THEN acc.info[doc_id]
                   ELSE [document_name |-> chunk.document_name,
                         best_chunk |-> chunk.content, chunks_found |-> 0]
       IN AggregateByDocument(Tail(chunk_results),
            [order |-> IF seen THEN acc.order ELSE Append(acc.order, doc_id),
             scores |-> [d \in DOMAIN acc.scores \cup {doc_id} |->
                           IF d = doc_id THEN scores ELSE acc.scores[d]],
             info |-> [d \in DOMAIN acc.info \cup {doc_id} |->
                         IF d = doc_id
                         THEN [info EXCEPT
                                 !.best_chunk = IF better THEN chunk.content ELSE @,
                                 !.chunks_found = @ + 1]
                         ELSE acc.info[d]]])

\* the second for loop: one dict per document, in the order of the keys
DocumentResults(acc) ==
  [i \in DOMAIN acc.order |->
     LET doc_id == acc.order[i]
         top_scores == TopScores(acc.scores[doc_id])
     IN [document_id |-> doc_id,
         document_name |-> acc.info[doc_id].document_name,
         similarity_score |-> Sum(top_scores) \div Len(top_scores),
         preview_content |-> Slice(acc.info[doc_id].best_chunk, 0, 300) \o <<"...">>,
         matching_chunks |-> acc.info[doc_id].chunks_found]]

\* list.sort(key=similarity_score, reverse=True): the sort is stable, equal
\* scores keep their order
RECURSIVE SortByScore(_)
SortByScore(results) ==
  IF results = <<>> THEN <<>>
  ELSE LET i == CHOOSE k \in DOMAIN results :
                  /\ \A j \in DOMAIN results :
                       results[j].similarity_score <= results[k].similarity_score
                  /\ \A j \in 1 .. k - 1 :
                       results[j].similarity_score < results[k].similarity_score
       IN <<results[i]>> \o SortByScore(RemoveAt(results, i))

\* search_documents_by_content from the return of search_with_query_text on
SearchDocuments(chunk_results, limit) ==
  IF chunk_results = <<>> THEN <<>>
  ELSE LET acc == AggregateByDocument(chunk_results,
                                      [order |-> <<>>, scores |-> <<>>, info |-> <<>>])
       IN Slice(SortByScore(DocumentResults(acc)), 0, limit)

\* search_documents_by_content(limit) once self.search_with_query_text has
\* returned: what it returned is aggregated
search_documents_by_content(limit) ==
  /\ ret.op = "search_with_query_text"
  /\ ret' = Return("search_documents_by_content",
                   SearchDocuments(ret.value.value, limit),
                   [chunk_results |-> ret.value.value, limit |-> limit])
  /\ UNCHANGED <<now, tasks, active_tasks, processing_queue, is_running, worker_task, old_workers,
                 documents, status_log, first_attempts>>
  /\ UNCHANGED vector_vars

DocumentLimits == {1, 2}

\* the chunk-level search has returned chunk_results
InitDocuments ==
  /\ now = 0
  /\ tasks = <<>>
  /\ active_tasks = <<>>
  /\ processing_queue = <<>>
  /\ is_running = FALSE
  /\ worker_task = Coroutine("none", NoTask)
  /\ old_workers = <<>>
  /\ documents = [d \in Docs |-> [content |-> "text", embedding_status |-> "pending"]]
  /\ status_log = <<>>
  /\ first_attempts = <<>>
  /\ document_chunks = {}
  /\ embedding_column = embedding_dimension
  /\ is_initialized = TRUE
  /\ model_loads = 1
  /\ \E found \in SeqsUpTo(FoundChunks, MaxResults) :
       ret = Return("search_with_query_text", Returned(WithContent(found)), <<>>)

NextDocuments == \E limit \in DocumentLimits : search_documents_by_content(limit)

\* the aggregation of given chunk-level results into document-level results
SpecDocuments == InitDocuments /\ [][NextDocuments]_vars

\* ====================================================== claims: the queue
IsPrefix(s, t) == Len(s) <= Len(t) /\ \A i \in DOMAIN s : s[i] = t[i]

Last(s) == s[Len(s)]

Count(s, x) == Cardinality({i \in DOMAIN s : s[i] = x})

\* a worker coroutine refers to the task object o
Held(o) == \E i \in Workers : WorkerAt(i).task = o

\* a worker coroutine that has not returned holds o
HeldLive(o) ==
  \E i \in Workers : WorkerAt(i).task = o /\ WorkerAt(i).pc \notin {"none", "done"}

\* a worker has o from the queue and is about to attempt it, or attempts it
Taken(o) ==
  \E i \in Workers : WorkerAt(i).task = o /\ WorkerAt(i).pc \in {"delivered", "processing"}

\* a worker is inside an attempt on o
Attempting(o) == \E i \in Workers : WorkerAt(i) = Coroutine("processing", o)

\* a worker sleeps before the retry of o
Sleeping(o) == \E i \in Workers : WorkerAt(i) = Coroutine("sleeping", o)

\* the task of the attempt that is under way, NoTask when there is none
InAttempt ==
  IF \E o \in DOMAIN tasks : Attempting(o)
  THEN CHOOSE o \in DOMAIN tasks : Attempting(o)
  ELSE NoTask

RECURSIVE RetryCycles(_)
RetryCycles(n) == IF n = 0 THEN <<>> ELSE <<"retrying", "processing">> \o RetryCycles(n - 1)

\* the statuses of a task whose every attempt raises, from enqueue to failed
FailingLife == <<"pending", "processing">> \o RetryCycles(max_retries) \o <<"failed">>

\* C1: every attempt raises here (TryBlock never completes), and then a task
\* goes pending -> processing, enters retrying exactly max_retries times, each
\* time followed by a new attempt, and only then is failed; while it is not
\* failed its retry_count is at most max_retries.
C1_RetryBound ==
  \A o \in DOMAIN tasks :
    /\ Last(status_log[o]) = tasks[o].status
    /\ IsPrefix(status_log[o], FailingLife)
    /\ tasks[o].status = "failed" =>
         /\ Count(status_log[o], "retrying") = max_retries
         /\ Count(status_log[o], "processing") = max_retries + 1
    /\ tasks[o].status # "failed" => tasks[o].retry_count <= max_retries

C1_Witness ==
  \E o \in DOMAIN tasks : tasks[o].status = "failed" /\ status_log[o] = FailingLife

\* the tasks of the registry, as a set
Registered == Range(RegistryTasks)

\* C2: a failed task is not in the queue and not held by the worker, and no
\* step other than retry_failed_tasks changes it; retry_failed_tasks makes
\* every failed task of the registry pending with retry_count 0 and no
\* error_message, puts it on the queue exactly once, returns how many they
\* were, and leaves every other task and its place in the queue as it was.
C2_Step ==
  /\ \A o \in DOMAIN tasks :
       tasks[o].status = "failed" =>
         /\ Count(processing_queue, o) = 0
         /\ ~Held(o)
         /\ ~retry_failed_tasks => tasks'[o] = tasks[o]
  /\ retry_failed_tasks =>
       /\ \A o \in DOMAIN tasks :
            IF o \in Registered /\ tasks[o].status = "failed"
            THEN /\ tasks'[o].status = "pending"
                 /\ tasks'[o].retry_count = 0
                 /\ tasks'[o].error_message = None
                 /\ tasks'[o].task_id = tasks[o].task_id
                 /\ Count(processing_queue', o) = 1
            ELSE /\ tasks'[o] = tasks[o]
                 /\ Count(processing_queue', o) = Count(processing_queue, o)
       /\ ret'.value =
            <<Cardinality({o \in Registered : tasks[o].status = "failed"})>>
       /\ IsPrefix(processing_queue, processing_queue')

C4_Step ==
  (stop_background_worker /\ worker_task.task # NoTask) =>
    /\ tasks'[worker_task.task].status = "processing"
    /\ processing_queue' = processing_queue

C4_StopLeavesProcessing == [][C4_Step]_vars

\* C6: the first attempts are started in the order of the enqueues (objects
\* are numbered in that order), one task at a time, whatever priority flags
\* the tasks carry.
C6_FirstAttemptsFifo ==
  /\ first_attempts = [i \in 1 .. Len(first_attempts) |-> i]
  /\ Cardinality({o \in DOMAIN tasks : tasks[o].status = "processing"}) <= 1

C6_Witness ==
  /\ Len(first_attempts) >= 2
  /\ ~tasks[1].priority
  /\ tasks[2].priority

\* The event loop runs every coroutine that is ready, and a sleep or a
\* wait_for ends: a worker step that stays possible is taken.
FairSpec == Spec /\ WF_vars(Worker)

\* a failed attempt: worker_attempt leaves its task retrying or failed
FailedAttempt ==
  /\ worker_attempt
  /\ tasks'[InAttempt].status \in {"retrying", "failed"}

C3_Step ==
  FailedAttempt =>
    /\ tasks'[InAttempt].error_message # None
    /\ tasks'[InAttempt].error_message =
         TryBlock(documents[tasks[InAttempt].document_id].content)
    /\ \A i \in Workers :
         (WorkerAt(i).pc = "processing" /\ is_running) =>
           /\ i \in Workers'
           /\ WorkerAt(i)'.pc \in {"sleeping", "waiting"}

\* C3: a failed attempt records its error in error_message and leaves the
\* worker loop alive (sleeping before the retry, or waiting for the next
\* task); and under a worker that is not stopped every task that is in the
\* queue is eventually attempted.
C3_WorkerSurvivesErrors ==
  /\ [][C3_Step]_vars
  /\ \A o \in 1 .. MaxTasks :
       (is_running /\ o \in DOMAIN tasks /\ Count(processing_queue, o) > 0)
         ~> (~is_running \/ Attempting(o))

\* a task has failed for good, and the worker is attempting another one
C3_Witness ==
  /\ is_running
  /\ worker_task.pc = "processing"
  /\ \E o \in DOMAIN tasks :
       /\ tasks[o].status = "failed"
       /\ tasks[o].error_message # None
       /\ worker_task.task # o

\* ================================================= claims: bulk and purge
\* C5 (as claimed): queue_bulk_documents returns one task_id per pair that
\* can be enqueued, in the order of the input, and every such pair is
\* enqueued, also when another item of the list cannot be.
C5_BulkKeepsGoing ==
  ret.op = "queue_bulk_documents" =>
    LET docs == ret.arg[1]
        before == ret.arg[2]
        good == SelectSeq(docs, WellFormed)
    IN /\ Len(ret.value) = Len(good)
       /\ Len(tasks) >= before + Len(good)
       /\ \A i \in DOMAIN good :
            /\ tasks[before + i].document_id = good[i].document_id
            /\ tasks[before + i].filename = good[i].filename
            /\ ret.value[i] = tasks[before + i].task_id

\* a completed task that is more than older_than_hours hours old
Old(o, older_than_hours) ==
  /\ tasks[o].status = "completed"
  /\ now - tasks[o].completed_at > older_than_hours * SecondsPerHour

C8_Step ==
  \A h \in Hours :
    clear_completed_tasks(h) =>
      LET Young(o) == ~Old(o, h)
      IN /\ RegistryTasks' = SelectSeq(RegistryTasks, Young)
         /\ \A e \in Range(active_tasks') : e \in Range(active_tasks)
         /\ ret'.value = <<Cardinality({o \in Registered : Old(o, h)})>>
         /\ tasks' = tasks
         /\ processing_queue' = processing_queue

\* C8: clear_completed_tasks(h) removes from the registry exactly the
\* completed tasks whose completed_at is more than h hours before now and
\* returns their number; every other task stays registered under its
\* task_id, in place, and no task object or queue entry is changed.
C8_ClearRemovesOldCompleted == [][C8_Step]_vars

\* one completed task was removed and a younger completed one was kept
C8_Witness ==
  /\ ret.op = "clear_completed_tasks"
  /\ ret.value = <<1>>
  /\ \E o \in Registered : tasks[o].status = "completed"
  /\ \E o \in DOMAIN tasks : o \notin Registered /\ tasks[o].status = "completed"

\* ========================================= claims: the store and the search
\* the rows that a batch holds are all in the table already
Persisted(chunk_data) ==
  /\ chunk_data # <<>>
  /\ \A i \in DOMAIN chunk_data : chunk_data[i] \in document_chunks

C7_Step ==
  \A chunk_data \in SeqsUpTo(ChunkData, MaxBatch) :
    (save_chunks_to_database(chunk_data) /\ Persisted(chunk_data)) =>
      /\ ret'.value.raised = None
      /\ document_chunks' = document_chunks
      /\ \A r1, r2 \in document_chunks' : r1.chunk_id = r2.chunk_id => r1 = r2

\* C7 (as claimed): persisting chunks that were persisted before succeeds
\* and leaves the table as it was after the first persist, one row per
\* chunk_id.
C7_PersistIsIdempotent == [][C7_Step]_vars

\* C9 (as claimed): search_similar_chunks called with a vector whose length
\* is not embedding_dim raises or returns an error value, never a plain
\* list of results.
C9_WrongDimensionSignalled ==
  (ret.op = "search_similar_chunks" /\ ret.arg.query.len # embedding_dim) =>
    ret.value.raised # None

C10_Step ==
  \A q \in Queries, model \in BOOLEAN, l \in Limits, t \in Thresholds,
     ids \in DocumentIds :
    search_with_query_text(q, model, l, t, ids) =>
      LET generated == generate_query_embedding(q, is_initialized \/ model)
      IN /\ ret'.value = SearchSimilarChunks(generated.embedding, l, t, ids)
         /\ ret'.value.value = <<>> =>
              \/ ~generated.success
              \/ Matching(generated.embedding, OrDefault(t, similarity_threshold),
                          ids) = {}

\* C10 (as claimed): search_with_query_text returns what search_similar_chunks
\* returns for the vector that generate_query_embedding produced, with the
\* same limit, threshold and document_ids, and an empty list only when the
\* embedding failed or no chunk clears the threshold.
C10_TextSearchDelegates == [][C10_Step]_vars

\* ================================================ claims: the generator
\* the text that a successful result was encoded from
Encoded(result) == result.embedding.text

\* C11 (as claimed): the text handed to the model begins with "passage:" when
\* generate_embedding embeds a passage and with "query:" when
\* generate_query_embedding embeds a query, and a query never has the
\* passage prefix in front of it.
C11_PrefixByKind ==
  /\ (ret.op = "generate_embedding" /\ ret.value.success) =>
       Head(Encoded(ret.value)) = "passage:"
  /\ (ret.op = "generate_query_embedding" /\ ret.value.success) =>
       /\ Head(Encoded(ret.value)) = "query:"
       /\ Head(Encoded(ret.value)) # "passage:"

\* C12 (as claimed): for an empty or white-space-only input both
\* generate_embedding and generate_query_embedding return a result without
\* success and without a vector (the model was not asked to encode).
C12_EmptyInputFails ==
  (ret.op \in {"generate_embedding", "generate_query_embedding"}
     /\ Strip(ret.arg.text) = <<>>) =>
    /\ ~ret.value.success
    /\ ret.value.embedding = PyNone

\* C13: batch_generate_embeddings returns one result per text, result i
\* being the result of generate_embedding on texts[i] (with the model as the
\* call found or loaded it), for every batch_size; a text that fails has an
\* error result in its place and the later texts are embedded all the same.
C13_BatchIsPointwise ==
  ret.op = "batch_generate_embeddings" =>
    /\ Len(ret.value) = Len(ret.arg.texts)
    /\ \A i \in DOMAIN ret.arg.texts :
         ret.value[i] =
           generate_embedding(ret.arg.texts[i], is_initialized \/ ret.arg.available)

\* a batch of two with batch_size 1 whose first text fails and second succeeds
C13_Witness ==
  /\ ret.op = "batch_generate_embeddings"
  /\ ret.arg.batch_size = 1
  /\ Len(ret.value) = 2
  /\ ~ret.value[1].success
  /\ ret.value[2].success

\* a step whose ret' is that of a generate_embedding call is that call, or
\* leaves everything as the call left it
C14_Step ==
  /\ ret'.op = "generate_embedding" =>
       LET available == ret'.arg.available
       IN
         /\ (~is_initialized /\ ~available) =>
              /\ ~ret'.value.success
              /\ ret'.value.error = "Model initialization failed"
              /\ ~is_initialized'
              /\ model_loads' = model_loads
         /\ (~is_initialized /\ available) =>
              /\ is_initialized'
              /\ model_loads' = model_loads + 1
              /\ ret'.value.error # "Model initialization failed"
         /\ is_initialized =>
              /\ is_initialized'
              /\ model_loads' = model_loads
              /\ ret'.value.error # "Model initialization failed"
  /\ is_initialized => is_initialized'
  /\ model_loads' <= 1

\* C14: a generate_embedding call whose model initialization fails returns
\* an error result and leaves the generator uninitialized, so that the next
\* call initializes again and succeeds in it once the model can be loaded;
\* an initialized generator stays initialized, whatever is called, and the
\* model is loaded at most once.
C14_InitializationRetries == [][C14_Step]_vars

\* the model was loaded, once, and the embedding succeeded
C14_Witness ==
  /\ ret.op = "generate_embedding"
  /\ ret.value.success
  /\ model_loads = 1
  /\ is_initialized

\* ================================================== claims: the chunker
\* the last n words of a chunk content
Trailing(words, n) == SubSeq(words, Len(words) - n + 1, Len(words))

\* C15: for consecutive chunks i and i+1 of one chunk_text call, chunk i+1
\* begins with the last `overlap` words of chunk i, or with all words of
\* chunk i when it has fewer than `overlap` words.
C15_OverlapLeads ==
  ret.op = "chunk_text" =>
    \A i \in 1 .. Len(ret.value) - 1 :
      LET this == ret.value[i].content
          next == ret.value[i + 1].content
          n == IF Len(this) < ret.arg.params.overlap THEN Len(this)
               ELSE ret.arg.params.overlap
      IN /\ Len(next) >= n
         /\ SubSeq(next, 1, n) = Trailing(this, n)

\* two chunks, the first with fewer words than the overlap
C15_Witness ==
  /\ ret.op = "chunk_text"
  /\ Len(ret.value) >= 2
  /\ Len(ret.value[1].content) < ret.arg.params.overlap
  /\ ret.value[1].content # ret.value[2].content

\* the words of a sentence stand together in a chunk content
Contains(content, words) ==
  \E k \in 0 .. Len(content) - Len(words) :
    SubSeq(content, k + 1, k + Len(words)) = words

\* a sentence of 10 to 1000 characters
InLengthBounds(sentence) == sentence.chars >= 10 /\ sentence.chars <= 1000

\* C16 (as claimed): every sentence of 10 to 1000 characters stands whole in
\* some returned chunk, and such sentences come in their original order.
C16_KeepsSentencesInBounds ==
  ret.op = "chunk_text" =>
    LET text == ret.arg.text
        chunks == ret.value
    IN /\ \A i \in DOMAIN text :
            InLengthBounds(text[i]) =>
              \E m \in DOMAIN chunks : Contains(chunks[m].content, text[i].words)
       /\ \A i, j \in DOMAIN text :
            (i < j /\ InLengthBounds(text[i]) /\ InLengthBounds(text[j])) =>
              \E m, n \in DOMAIN chunks :
                /\ m <= n
                /\ Contains(chunks[m].content, text[i].words)
                /\ Contains(chunks[n].content, text[j].words)

\* C17 (as claimed): every returned chunk has at most chunk_size words, or
\* is one sentence that alone has more than chunk_size words.
C17_ChunkSizeBound ==
  ret.op = "chunk_text" =>
    \A m \in DOMAIN ret.value :
      \/ Len(ret.value[m].content) <= ret.arg.params.chunk_size
      \/ \E i \in DOMAIN ret.arg.text :
           /\ ret.arg.text[i].words = ret.value[m].content
           /\ Len(ret.arg.text[i].words) > ret.arg.params.chunk_size

\* two lists of chunks agree in length and, chunk by chunk, in chunk_id,
\* content, chunk_index and word_count
SameChunks(a, b) ==
  /\ Len(a) = Len(b)
  /\ \A i \in DOMAIN a :
       /\ a[i].chunk_id = b[i].chunk_id
       /\ a[i].content = b[i].content
       /\ a[i].chunk_index = b[i].chunk_index
       /\ a[i].word_count = b[i].word_count

C18_Step ==
  (ret.op = "chunk_text" /\ ret'.op = "chunk_text" /\ ret'.arg = ret.arg) =>
    SameChunks(ret.value, ret'.value)

\* C18: a chunk_text call with the text, document_id and parameters of the
\* call before it, made at any later time, returns the same number of
\* chunks with the same chunk_id, content, chunk_index and word_count.
C18_ChunkingIsDeterministic == [][C18_Step]_vars

\* chunks made after the clock has moved
C18_Witness ==
  /\ ret.op = "chunk_text"
  /\ Len(ret.value) >= 2
  /\ now = MaxTime
  /\ ret.value[1].metadata.created_at = MaxTime

\* C19: the chunks of one call have the chunk_index values 0, 1, ..., n-1 in
\* list order, and a text without content yields the empty list.
C19_IndexesAreDense ==
  ret.op = "chunk_text" =>
    /\ \A i \in DOMAIN ret.value : ret.value[i].chunk_index = i - 1
    /\ ret.arg.text = <<>> => ret.value = <<>>

C19_Witness ==
  /\ ret.op = "chunk_text"
  /\ Len(ret.value) >= 3
  /\ ret.value[3].chunk_index = 2

\* ================================================ claims: the ranking
\* the stored chunks that clear the threshold and pass the document filter
Eligible(query_embedding, threshold, document_ids) ==
  {r \in document_chunks :
     /\ Similarity(r.embedding, query_embedding) >= threshold
     /\ document_ids # <<>> => r.document_id \in Range(document_ids)}

\* C20: search_similar_chunks returns at most `limit` results, each a stored
\* chunk with similarity_score >= threshold (inclusive) and, when document_ids
\* names documents, from one of them, in order of non-increasing
\* similarity_score; no eligible chunk that is left out is more similar than
\* a returned one; and a search that the database answers returns as many
\* chunks as are eligible, up to `limit`.
C20_SearchIsTopK ==
  ret.op = "search_similar_chunks" =>
    LET query == ret.arg.query
        results == ret.value.value
        n == OrDefault(ret.arg.limit, max_results_default)
        threshold == OrDefault(ret.arg.similarity_threshold, similarity_threshold)
        ids == ret.arg.document_ids
        eligible == Eligible(query, threshold, ids)
        returned == {results[i].chunk_id : i \in DOMAIN results}
    IN /\ Len(results) <= n
       /\ \A i \in DOMAIN results :
            /\ results[i].similarity_score >= threshold
            /\ ids # <<>> => results[i].document_id \in Range(ids)
            /\ \E r \in eligible :
                 /\ r.chunk_id = results[i].chunk_id
                 /\ Similarity(r.embedding, query) = results[i].similarity_score
       /\ \A i, j \in DOMAIN results :
            i < j => /\ results[i].similarity_score >= results[j].similarity_score
                     /\ results[i].chunk_id # results[j].chunk_id
       /\ \A r \in eligible :
            r.chunk_id \notin returned =>
              \A i \in DOMAIN results :
                Similarity(r.embedding, query) <= results[i].similarity_score
       /\ (query.len = embedding_dim /\ embedding_column = embedding_dim) =>
            Len(results) = IF Cardinality(eligible) < n THEN Cardinality(eligible) ELSE n

\* a search with limit 1 and threshold 0 that returns the chunk with score
\* 1.00 and leaves out an eligible chunk with score 0.00
C20_Witness ==
  /\ ret.op = "search_similar_chunks"
  /\ ret.arg.limit = <<1>>
  /\ ret.arg.similarity_threshold = <<0>>
  /\ Len(ret.value.value) = 1
  /\ ret.value.value[1].similarity_score = 100
  /\ \E r \in document_chunks :
       /\ r.chunk_id # ret.value.value[1].chunk_id
       /\ Similarity(r.embedding, ret.arg.query) = 0

\* ========================================= claims: the document-level search
\* the positions of the chunks of document d in a result list
ChunksOf(chunk_results, d) ==
  {k \in DOMAIN chunk_results : chunk_results[k].document_id = d}

\* the documents that a result list names
DocumentsOf(chunk_results) == {chunk_results[k].document_id : k \in DOMAIN chunk_results}

\* m is the mean of the two highest scores of document d, or its only score
IsMeanOfTopTwo(chunk_results, d, m) ==
  LET own == ChunksOf(chunk_results, d)
  IN IF Cardinality(own) = 1
     THEN \A k \in own : m = chunk_results[k].similarity_score
     ELSE \E i, j \in own :
            /\ i # j
            /\ \A k \in own \ {i, j} :
                 /\ chunk_results[k].similarity_score <= chunk_results[i].similarity_score
                 /\ chunk_results[k].similarity_score <= chunk_results[j].similarity_score
            /\ 2 * m = chunk_results[i].similarity_score
                         + chunk_results[j].similarity_score

\* C21: given the chunk-level results, search_documents_by_content returns
\* one entry per document_id, at most `limit` of them and all of them when
\* they are no more than `limit`; the score of an entry is the mean of the two
\* highest chunk scores of its document (its only score when it has one
\* chunk); the entries are in order of non-increasing score and no document
\* that is left out has a higher score than a returned one; the preview is
\* the content of a chunk of the document that no other chunk of it outscores.
C21_DocumentScoreIsMeanOfTopTwo ==
  ret.op = "search_documents_by_content" =>
    LET chunks == ret.arg.chunk_results
        results == ret.value
        docs == DocumentsOf(chunks)
        returned == {results[i].document_id : i \in DOMAIN results}
    IN /\ Len(results) = IF Cardinality(docs) < ret.arg.limit THEN Cardinality(docs)
                          ELSE ret.arg.limit
       /\ returned \subseteq docs
       /\ \A i, j \in DOMAIN results :
            i < j => /\ results[i].document_id # results[j].document_id
                     /\ results[i].similarity_score >= results[j].similarity_score
       /\ \A i \in DOMAIN results :
            /\ IsMeanOfTopTwo(chunks, results[i].document_id, results[i].similarity_score)
            /\ \E k \in ChunksOf(chunks, results[i].document_id) :
                 /\ results[i].preview_content = chunks[k].content \o <<"...">>
                 /\ \A n \in ChunksOf(chunks, results[i].document_id) :
                      chunks[n].similarity_score <= chunks[k].similarity_score
       /\ \A d \in docs \ returned, i \in DOMAIN results, m \in 0 .. 100 :
            IsMeanOfTopTwo(chunks, d, m) => m <= results[i].similarity_score

\* document dA with the chunk scores 0.9, 0.5, 0.5 and document dB with
\* 0.8, 0.8, limit 1: the one entry is dB with the score 0.8
C21_Witness ==
  /\ ret.op = "search_documents_by_content"
  /\ ret.arg.limit = 1
  /\ [k \in DOMAIN ret.arg.chunk_results |->
        <<ret.arg.chunk_results[k].document_id,
          ret.arg.chunk_results[k].similarity_score>>]
       = <<<<"dA", 90>>, <<"dB", 80>>, <<"dB", 80>>, <<"dA", 50>>, <<"dA", 50>>>>
  /\ Len(ret.value) = 1
  /\ ret.value[1].document_id = "dB"
  /\ ret.value[1].similarity_score = 80

\* ============================================ claims: the task state machine
\* the edges of the status of a task that the worker takes
WorkerEdges ==
  {<<"pending", "processing">>, <<"processing", "completed">>,
   <<"processing", "retrying">>, <<"retrying", "processing">>,
   <<"processing", "failed">>}

C22_Step ==
  \A o \in DOMAIN tasks :
    LET edge == <<tasks[o].status, tasks'[o].status>>
    IN /\ edge[1] # edge[2] => edge \in WorkerEdges \cup {<<"failed", "pending">>}
       /\ edge = <<"failed", "pending">> => ret'.op = "retry_failed_tasks"
       /\ edge \in WorkerEdges => Attempting(o)' \/ Attempting(o)
       /\ tasks[o].status = "completed" => tasks'[o].status = "completed"
       /\ (Attempting(o)' /\ ~Attempting(o)) =>
            /\ tasks[o].status \in {"pending", "retrying"}
            /\ tasks'[o].status = "processing"

\* C22: the status of a task changes only along pending -> processing,
\* processing -> completed, processing -> retrying, retrying -> processing
\* and processing -> failed, each taken by the worker on the task it holds,
\* and failed -> pending, taken by retry_failed_tasks; a completed task
\* keeps its status; a task that the worker picks up was pending or
\* retrying and becomes processing.
C22_StatusEdges == [][C22_Step]_vars

\* next to a completed task, a task has failed, was reset by
\* retry_failed_tasks and is in its second attempt
C22_Witness ==
  /\ ret.op = "retry_failed_tasks"
  /\ ret.value = <<1>>
  /\ \E o \in DOMAIN tasks : tasks[o].status = "completed"
  /\ \E o \in DOMAIN tasks :
       status_log[o] = <<"pending", "processing", "retrying", "processing">>

\* the content of the document of task o, as the store has it
ContentOf(o) == documents[tasks[o].document_id].content

C23_Step ==
  /\ \A o \in DOMAIN tasks :
       (tasks'[o].status = "completed" /\ tasks[o].status # "completed") =>
         /\ worker_attempt
         /\ InAttempt = o
         /\ ContentOf(o) = "text"
         /\ documents'[tasks[o].document_id].embedding_status = "completed"
         /\ tasks'[o].completed_at # NoTime
  /\ worker_attempt =>
       LET o == InAttempt
       IN /\ tasks'[o].status \in {"completed", "retrying", "failed"}
          /\ ContentOf(o) = "absent" =>
               tasks'[o].error_message = "Document content not found"
          /\ ContentOf(o) = "blank" =>
               tasks'[o].error_message = "No chunks generated from document"
          /\ tasks'[o].status # "completed" =>
               /\ tasks'[o].error_message # None
               /\ tasks'[o].completed_at = NoTime
               /\ documents'[tasks[o].document_id].embedding_status # "completed"

C24_Step ==
  (worker_attempt /\ ContentOf(InAttempt) = "text"
     /\ tasks[InAttempt].retry_count = 0) =>
    /\ tasks'[InAttempt].status = "completed"
    /\ tasks'[InAttempt].retry_count = 0
    /\ tasks'[InAttempt].error_message = None
    /\ tasks'[InAttempt].completed_at # NoTime

\* C24 (as claimed): the first attempt on a document that has content and
\* yields chunks ends in status completed with retry_count 0, no
\* error_message and completed_at set.
C24_FirstAttemptCompletes == [][C24_Step]_vars

\* ================================================== claims: the retry path
\* p stands before o in the queue q
Before(q, p, o) == \E i, j \in DOMAIN q : i < j /\ q[i] = p /\ q[j] = o

C25_Step ==
  /\ \A o \in DOMAIN tasks :
       (FailedAttempt /\ o = InAttempt /\ tasks'[o].status = "retrying") =>
         /\ Sleeping(o)'
         /\ tasks'[o].task_id = tasks[o].task_id
         /\ tasks'[o].retry_count = tasks[o].retry_count + 1
         /\ tasks'[o].retry_count <= max_retries
         /\ processing_queue' = processing_queue
  /\ worker_requeues => \E o \in DOMAIN tasks : Sleeping(o) /\ ~Sleeping(o)'
  /\ \A o \in DOMAIN tasks :
       (worker_requeues /\ Sleeping(o) /\ ~Sleeping(o)') =>
         /\ tasks[o].status = "retrying"
         /\ tasks' = tasks
         /\ Count(processing_queue, o) = 0
         /\ Count(processing_queue', o) = 1
         /\ \A p \in Range(processing_queue) :
              /\ Count(processing_queue', p) = 1
              /\ Before(processing_queue', p, o)
  /\ \A p, o \in Range(processing_queue) :
       (Before(processing_queue, p, o) /\ o \in Range(processing_queue')) =>
         \/ Before(processing_queue', p, o)
         \/ Taken(p)'
  /\ \A o \in DOMAIN tasks :
       (Taken(o)' /\ ~Taken(o)) =>
         (processing_queue # <<>> /\ o = Head(processing_queue))

\* C25: a failed attempt that leaves its task retrying has added one to its
\* retry_count and kept its task_id, and the worker holds that same task
\* during the sleep; when the sleep ends that task, unchanged, is put on the
\* queue behind every task that is in the queue then; the order of the
\* tasks in the queue never changes and the worker takes the task at the
\* head, so each of those tasks begins its next attempt before the retried
\* task does.
C25_RetryGoesToTheBack == [][C25_Step]_vars

\* a retried task is in the queue behind a task that waits for its first
\* attempt
C25_Witness ==
  \E p, o \in DOMAIN tasks :
    /\ Before(processing_queue, p, o)
    /\ tasks[o].status = "retrying"
    /\ tasks[o].retry_count = 1
    /\ tasks[p].status = "pending"
    /\ tasks[o].priority
    /\ ~tasks[p].priority

\* ================================================== claims: who writes what
\* a step writes the registry or a field of a task that exists
WritesRegistry == active_tasks' # active_tasks

WritesTask(o) == tasks'[o] # tasks[o]

C26_Step ==
  /\ WritesRegistry =>
       /\ ~Worker
       /\ \/ /\ Len(tasks') = Len(tasks) + 1
             /\ DictGet(active_tasks', tasks'[Len(tasks')].task_id) = Len(tasks')
             /\ \A e \in Range(active_tasks) :
                  e.task_id # tasks'[Len(tasks')].task_id => e \in Range(active_tasks')
          \/ /\ ret'.op = "clear_completed_tasks"
             /\ Range(active_tasks') \subseteq Range(active_tasks)
             /\ \A e \in Range(active_tasks) \ Range(active_tasks') :
                  tasks[e.task].status = "completed"
  /\ \A o \in DOMAIN tasks :
       WritesTask(o) =>
         \/ /\ Worker
            /\ Attempting(o) \/ Attempting(o)'
            /\ tasks[o].status # "failed"
         \/ /\ retry_failed_tasks
            /\ tasks[o].status = "failed"
            /\ ~HeldLive(o)
  /\ (WritesRegistry \/ \E o \in DOMAIN tasks : WritesTask(o)) => ~MidStep \/ Worker

get_task_status(task_id) == DictGet(active_tasks, task_id)

\* C27 (as claimed): an enqueue returns a task_id that no task of the
\* registry has yet, so that the registry grows by one entry with every
\* enqueue and every task in the queue is the task that get_task_status
\* returns for its task_id.
C27_TaskIdsAreFresh ==
  /\ \A i \in DOMAIN processing_queue :
       get_task_status(tasks[processing_queue[i]].task_id) = processing_queue[i]
  /\ \A o, p \in DOMAIN tasks : o # p => tasks[o].task_id # tasks[p].task_id

\* ================================================ claims: start and stop
\* C28 (as claimed): every task that is pending or retrying is in the queue
\* or is held by a worker coroutine that is live.
C28_NoTaskIsStranded ==
  \A o \in DOMAIN tasks :
    tasks[o].status \in {"pending", "retrying"} =>
      \/ o \in Range(processing_queue)
      \/ HeldLive(o)

\* the worker coroutines that have been started and have not returned
LiveWorkers == {i \in Workers : WorkerAt(i).pc \notin {"none", "done"}}

\* C30 (as claimed): at most one worker coroutine is live at any time,
\* whatever the order of the start and stop calls: once a stop has been
\* followed by a start, the worker of before the stop is gone.
C30_AtMostOneWorker == Cardinality(LiveWorkers) <= 1

====
